---- MODULE Spec2Model ----
(***************************************************************************)
(* Model of adam_core.utils.indexable: the Indexable base class (class     *)
(* index, class-index-to-members mapping, read, delete, sort) and the      *)
(* module-level concatenate; and of adam_core.utils.spice.setup_SPICE.     *)
(*                                                                         *)
(* Representation of the Python / numpy values used by the code:           *)
(*   - a 1-d numpy array is a sequence; array position p (0-based) is      *)
(*     element p+1 of the sequence;                                        *)
(*   - an optional integer (None or an int) is a sequence of length 0 or 1;*)
(*   - slice(start, stop, step) is a selection record of kind "slice";     *)
(*   - the elements of _class_index_to_members are <<start, stop, step>>   *)
(*     for a slice object and <<v>> for a raw integer identifier;          *)
(*   - _class_index is [nd, a]: nd = 1 for an array, nd = 0 for the numpy  *)
(*     scalar an integer subscript returns (a then holds the one value);   *)
(*   - an entity is the record of its __dict__; "built" says whether the   *)
(*     index attributes have been set (set_index has completed once);      *)
(*   - an exception is the "err" field of an operation's outcome. No       *)
(*     exception is caught by a caller in this module: a raised exception  *)
(*     ends the run (propagation policy of the package), except for the    *)
(*     StopIteration that ends a for statement;                            *)
(*   - prev, res, err and op record the last call for the properties; the  *)
(*     caller's next statement starts from the entity alone (Continue).    *)
(* The subclass modelled has two array members (rows: distinct row ids,    *)
(* keys: key values usable as index attribute), nested Indexable members   *)
(* (the sequence `nested`: none, one, or two where attribute lookup is      *)
(* studied) and a string member (frame), assigned in this order before     *)
(* Indexable.__init__; idx is the cursor __iter__ adds to __dict__.         *)
(***************************************************************************)
EXTENDS Integers, Sequences, FiniteSets, TLC

\* Longest member array drawn for an entity.
MaxLen == 3

\* Most calls that change the entity (set_index, delete, sort) in one run.
MaxCalls == 1

\* Key values of the "keys" member and of explicit index arrays.
KeySet == {"a", "b"}

\* Number of sort_values calls in a run of repeated sorting.
MaxSorts == 2

\* Longest key array and key values drawn for the grouping algorithm alone.
MaxKeys == 5
GroupKeys == {"a", "b", "c"}

VARIABLES
    ent,    \* the entity the caller holds
    prev,   \* the entity as it was before the last operation
    res,    \* <<>> or <<e>>: the entity returned by the last operation
    err,    \* exception raised by the last operation, "none" if it returned
    op,     \* the last operation and its arguments
    calls,  \* number of calls made so far that change the entity
    spice,  \* the process' SPICE state and the setup_SPICE call under way
    loops   \* the for statements under way over the entity

vars == <<ent, prev, res, err, op, calls, spice, loops>>

-----------------------------------------------------------------------------
(* Python and numpy primitives *)

Min(a, b) == IF a < b THEN a ELSE b
Max(a, b) == IF a > b THEN a ELSE b

\* np.arange(0, n)
Arange(n) == [j \in 1..n |-> j - 1]

\* The elements of a sequence.
Elems(s) == {s[j] : j \in 1..Len(s)}

\* arr[pos] for an array pos of valid 0-based positions.
Take(arr, pos) == [j \in 1..Len(pos) |-> arr[pos[j] + 1]]


\* Selections: an int, a slice, a list / ndarray of ints, anything else.
IntSel(i) == [kind |-> "int", i |-> i, start |-> <<>>, stop |-> <<>>,
              step |-> <<>>, a |-> <<>>]
SliceSel(start, stop, step) ==
    [kind |-> "slice", i |-> 0, start |-> start, stop |-> stop,
     step |-> step, a |-> <<>>]
ArrSel(a) == [kind |-> "arr", i |-> 0, start |-> <<>>, stop |-> <<>>,
              step |-> <<>>, a |-> a]
OtherSel == [kind |-> "other", i |-> 0, start |-> <<>>, stop |-> <<>>,
             step |-> <<>>, a |-> <<>>]

\* One bound of slice.indices(n) for a positive step.
SliceBound(x, n, dflt) ==
    IF x = <<>> THEN dflt
    ELSE IF x[1] < 0 THEN Max(x[1] + n, 0) ELSE Min(x[1], n)

\* The positions range(*sl.indices(n)) of a slice with a positive step.
SlicePositions(sl, n) ==
    LET s  == SliceBound(sl.start, n, 0)
        e  == SliceBound(sl.stop, n, n)
        st == IF sl.step = <<>> THEN 1 ELSE sl.step[1]
        c  == IF e > s THEN (e - s + st - 1) \div st ELSE 0
    IN  [j \in 1..c |-> s + (j - 1) * st]

\* Is x a valid integer subscript of an array of length n?
InBounds(x, n) == x >= -n /\ x < n

\* The position a valid integer subscript names.
Pos(x, n) == IF x < 0 THEN x + n ELSE x

\* arr[ind] for a slice or an integer array; IndexError when an integer is
\* out of bounds.
GetArr(arr, ind) ==
    LET n == Len(arr) IN
    IF ind.kind = "slice"
    THEN [err |-> "none", v |-> Take(arr, SlicePositions(ind, n))]
    ELSE IF \A j \in 1..Len(ind.a) : InBounds(ind.a[j], n)
         THEN [err |-> "none",
               v |-> [j \in 1..Len(ind.a) |-> arr[Pos(ind.a[j], n) + 1]]]
         ELSE [err |-> "IndexError", v |-> <<>>]

\* np.delete(arr, obj, axis=0) for an int, a slice or an integer array.
NpDelete(arr, obj) ==
    LET n == Len(arr)
        gone == IF obj.kind = "slice" THEN Elems(SlicePositions(obj, n))
                ELSE IF obj.kind = "int" THEN {Pos(obj.i, n)}
                ELSE {Pos(obj.a[j], n) : j \in 1..Len(obj.a)}
        ok == IF obj.kind = "slice" THEN TRUE
              ELSE IF obj.kind = "int" THEN InBounds(obj.i, n)
              ELSE \A j \in 1..Len(obj.a) : InBounds(obj.a[j], n)
    IN  IF ok
        THEN [err |-> "none",
              v |-> Take(arr, SelectSeq(Arange(n), LAMBDA p : p \notin gone))]
        ELSE [err |-> "IndexError", v |-> arr]

\* pd.unique(values): the distinct values in order of first occurrence.
Unique(values) ==
    Take(values,
         SelectSeq(Arange(Len(values)),
                   LAMBDA p : \A q \in 1..p : values[q] # values[p + 1]))

\* Position (0-based) of x in a sequence of distinct values holding x.
IndexOf(u, x) == (CHOOSE p \in 1..Len(u) : u[p] = x) - 1

-----------------------------------------------------------------------------
(* Entities *)

\* The values of the string member `frame` of a subclass.
Frames == {"ecliptic", "equatorial"}

\* The members a subclass assigns before Indexable.__init__ runs: two
\* arrays, a nested Indexable (or none) and a string; the index attributes
\* are not in __dict__ yet, and neither is the cursor idx of the iterator.
RawEntity(rows, keys, nested) ==
    [rows |-> rows, keys |-> keys, nested |-> nested, built |-> FALSE,
     frame |-> "ecliptic", idx |-> <<>>,
     _member_length |-> 0, _member_index |-> <<>>,
     _class_index_attribute |-> "None",
     _class_index |-> [nd |-> 1, a |-> <<>>],
     _class_index_to_members |-> <<>>,
     _class_index_to_members_is_slice |-> FALSE]

\* index_values arguments of set_index: None, an attribute name, an ndarray,
\* or a value of another type (a list).
NoneSpec == [kind |-> "none", name |-> "", vals |-> <<>>]
StrSpec(name) == [kind |-> "str", name |-> name, vals |-> <<>>]
ArraySpec(vals) == [kind |-> "array", name |-> "", vals |-> vals]
ListSpec(vals) == [kind |-> "list", name |-> "", vals |-> vals]

\* len(v) of every ndarray in __dict__: the subclass members and, once they
\* exist, the index arrays. A nested Indexable is no SLICEABLE_DATA_STRUCTURE
\* and a numpy scalar is no ndarray.
MemberLengths(e) ==
    {Len(e.rows), Len(e.keys)} \cup
    (IF e.built
     THEN {Len(e._member_index), Len(e._class_index_to_members)} \cup
          (IF e._class_index.nd = 1 THEN {Len(e._class_index.a)} ELSE {})
     ELSE {})

_check_member_validity(e) ==
    LET member_lengths == MemberLengths(e) IN
    IF Cardinality(member_lengths) # 1
    THEN [err |-> "ValueError", member_length |-> 0]
    ELSE [err |-> "none",
          member_length |-> CHOOSE l \in member_lengths : TRUE]

\* Lines 233-244: the values replaced by the rank of their first occurrence
\* (always taken: the dtype's type is a numpy type, never Python's int).
MapToIntegers(values) ==
    LET u == Unique(values)
    IN  [j \in 1..Len(values) |-> IndexOf(u, values[j])]

\* np.where(values == u)[0]
GroupMask(values, u) ==
    SelectSeq(Arange(Len(values)), LAMBDA p : values[p + 1] = u)

\* (len(mask) > 1) and np.all(np.diff(mask) != 1)
NotGrouped(mask) ==
    Len(mask) > 1 /\ \A j \in 1..(Len(mask) - 1) : mask[j + 1] - mask[j] # 1

\* A variant in which slice_start is never advanced.
SliceStartNotAdvanced(values, uq, p) == 0

\* Sum of len(mask) over the unique values before the p-th one.
SliceStart(values, uq, p) ==
    Cardinality({j \in 1..Len(values) : IndexOf(uq, values[j]) < p - 1})

_convert_grouped_array_to_slices(values) ==
    LET unique_values == Unique(values) IN
    IF \E p \in 1..Len(unique_values) :
           NotGrouped(GroupMask(values, unique_values[p]))
    THEN [err |-> "ValueError", slices |-> <<>>]
    ELSE [err |-> "none",
          slices |->
              [p \in 1..Len(unique_values) |->
                  LET slice_start == SliceStart(values, unique_values, p)
                  IN  <<slice_start,
                        slice_start
                            + Len(GroupMask(values, unique_values[p])),
                        1>>]]

\* Lines 250-264 for the mapped values and the outcome conv of the
\* conversion to slices: the except branch keeps the values themselves.
BuildConverted(e, mapped, attribute, conv) ==
    [e EXCEPT
        !.built = TRUE,
        !._class_index_attribute = attribute,
        !._class_index = [nd |-> 1, a |-> Unique(mapped)],
        !._class_index_to_members =
            IF conv.err = "none" THEN conv.slices
            ELSE [j \in 1..Len(mapped) |-> <<mapped[j]>>],
        !._class_index_to_members_is_slice = (conv.err = "none")]

\* Part 3 of set_index for the values mapped to integers.
BuildMapped(e, mapped, attribute) ==
    BuildConverted(e, mapped, attribute,
                   _convert_grouped_array_to_slices(mapped))

\* Lines 230-266: the mapping to integers, the class index and the mapping
\* of its positions to member rows.
BuildIndex(e, class_index_values, attribute) ==
    BuildMapped(e, MapToIntegers(class_index_values), attribute)

\* The array members getattr(self, name) finds.
AttrNames == {"rows", "keys"}

\* getattr(e, name) for a name in AttrNames.
GetAttr(e, name) == IF name = "rows" THEN e.rows ELSE e.keys

\* Part 2 of set_index: class_index_values for index_values None, a member
\* name or an ndarray.
ClassIndexValues(e, index_values) ==
    CASE index_values.kind = "none" -> Arange(e._member_length)
      [] index_values.kind = "str" -> GetAttr(e, index_values.name)
      [] OTHER -> index_values.vals

\* set_index after line 207, e holding the new _member_length and
\* _member_index: getattr raises AttributeError for an unknown name, and a
\* value of another type raises ValueError.
SetIndexValues(e, index_values) ==
    IF index_values.kind = "str" /\ index_values.name \notin AttrNames
    THEN [err |-> "AttributeError", e |-> e]
    ELSE IF index_values.kind \notin {"none", "str", "array"}
    THEN [err |-> "ValueError", e |-> e]
    ELSE [err |-> "none",
          e |-> BuildIndex(e, ClassIndexValues(e, index_values),
                           IF index_values.kind = "str"
                           THEN index_values.name ELSE "None")]

\* set_index for the outcome chk of _check_member_validity.
SetIndexChecked(e, index_values, chk) ==
    IF chk.err # "none" THEN [err |-> chk.err, e |-> e]
    ELSE SetIndexValues(
             [e EXCEPT !._member_length = chk.member_length,
                       !._member_index = Arange(chk.member_length)],
             index_values)

\* Indexable.set_index(index_values): [err, e] with e the entity afterwards.
set_index(e, index_values) ==
    SetIndexChecked(e, index_values, _check_member_validity(e))

\* len(self) for an entity whose class index is an array.
EntityLen(e) == Len(e._class_index.a)

\* A variant that compares each range's stop with the next range's stop.
AllConsecutiveByStop(slices) ==
    \A j \in 1..(Len(slices) - 1) :
        slices[j][2] = slices[j + 1][2] /\ slices[j][3] = slices[j + 1][3]

\* is_consecutive: each range stops where the next starts, with one step.
AllConsecutive(slices) ==
    \A j \in 1..(Len(slices) - 1) :
        slices[j][2] = slices[j + 1][1] /\ slices[j][3] = slices[j + 1][3]

\* A variant of the boundary check that lets start = len(self) pass.
StartBeyondLen(ind, n) ==
    ind.kind = "slice" /\ ind.start # <<>> /\ ind.start[1] > n

\* The boundary check on the slice: start is given and start >= len(self).
StartOutOfBounds(ind, n) ==
    ind.kind = "slice" /\ ind.start # <<>> /\ ind.start[1] >= n

\* np.concatenate of a sequence of arrays.
RECURSIVE Flatten(_)
Flatten(ss) == IF ss = <<>> THEN <<>> ELSE Head(ss) \o Flatten(Tail(ss))

\* Lines 316-334 for the ranges `slices` that the selection picks from the
\* mapping: one fused range if they are consecutive, else the class-index
\* values at each range joined (slices[0] of no range raises IndexError, and
\* so does subscripting a scalar class index).
QuerySlices(e, ind, slices) ==
    IF AllConsecutive(slices)
    THEN IF slices = <<>>
         THEN [err |-> "IndexError", ind |-> ind]
         ELSE [err |-> "none",
               ind |-> SliceSel(<<slices[1][1]>>, <<slices[Len(slices)][2]>>,
                                <<slices[1][3]>>)]
    ELSE IF e._class_index.nd = 0
    THEN [err |-> "IndexError", ind |-> ind]
    ELSE [err |-> "none",
          ind |-> ArrSel(Flatten(
              [j \in 1..Len(slices) |->
                  Take(e._class_index.a,
                       SlicePositions(SliceSel(<<slices[j][1]>>,
                                               <<slices[j][2]>>,
                                               <<slices[j][3]>>),
                                      Len(e._class_index.a)))]))]

\* Lines 336-338 for g = self._class_index[ind].
QueryDirect(g) == [err |-> g.err, ind |-> ArrSel(g.v)]

\* Lines 339-348 for g = self._class_index[ind]: the member positions whose
\* mapping entry is one of the selected values; the boolean mask must have
\* the length of _member_index. A range (a slice object) equals no integer.
QueryIsin(e, ind, g) ==
    IF g.err # "none"
       \/ Len(e._class_index_to_members) # Len(e._member_index)
    THEN [err |-> "IndexError", ind |-> ind]
    ELSE [err |-> "none",
          ind |-> ArrSel(Take(e._member_index,
                     SelectSeq(Arange(Len(e._class_index_to_members)),
                         LAMBDA p :
                             /\ ~e._class_index_to_members_is_slice
                             /\ e._class_index_to_members[p + 1][1]
                                    \in Elems(g.v))))]

\* Lines 303-348 for the slice, list or array ind.
QueryInd(e, ind) ==
    IF ind.kind = "slice" /\ ind.start # <<>> /\ e._class_index.nd = 0
    THEN [err |-> "TypeError", ind |-> ind]
    ELSE IF StartOutOfBounds(ind, EntityLen(e))
    THEN [err |-> "IndexError", ind |-> ind]
    ELSE IF ind.kind = "slice" /\ e._class_index_to_members_is_slice
    THEN QuerySlices(e, ind,
                     Take(e._class_index_to_members,
                          SlicePositions(ind,
                                         Len(e._class_index_to_members))))
    ELSE IF e._class_index.nd = 0
    THEN [err |-> "IndexError", ind |-> ind]
    ELSE IF e._class_index.a = e._member_index
    THEN QueryDirect(GetArr(e._class_index.a, ind))
    ELSE QueryIsin(e, ind, GetArr(e._class_index.a, ind))

\* Indexable._query_index(class_ind): [err, ind] with ind the member
\* selection returned.
_query_index(e, class_ind) ==
    IF class_ind.kind = "other" THEN [err |-> "TypeError", ind |-> class_ind]
    ELSE QueryInd(e, IF class_ind.kind = "int"
                     THEN SliceSel(<<class_ind.i>>, <<class_ind.i + 1>>, <<>>)
                     ELSE class_ind)

\* The class index made of the outcome g of subscripting its array.
ClassIndexArray(g) == [err |-> g.err, v |-> [nd |-> 1, a |-> g.v]]

\* v[np.s_[class_ind]] for the class index v.
ClassIndexItem(ci, class_ind) ==
    IF ci.nd = 0 THEN [err |-> "IndexError", v |-> ci]
    ELSE IF class_ind.kind = "int"
    THEN IF InBounds(class_ind.i, Len(ci.a))
         THEN [err |-> "none",
               v |-> [nd |-> 0,
                      a |-> <<ci.a[Pos(class_ind.i, Len(ci.a)) + 1]>>]]
         ELSE [err |-> "IndexError", v |-> ci]
    ELSE ClassIndexArray(GetArr(ci.a, class_ind))

\* The first exception raised by a sequence of steps, "none" if none.
FirstErr(errs) ==
    IF \A j \in 1..Len(errs) : errs[j] = "none" THEN "none"
    ELSE errs[CHOOSE j \in 1..Len(errs) :
                  errs[j] # "none" /\ \A q \in 1..(j - 1) : errs[q] = "none"]

\* The copy __getitem__ returns, for the outcomes of subscripting each
\* member in __dict__ order; the source when one of them raised.
GetItemCopy(e, error, rows, keys, nested, mi, ci, ctm) ==
    IF error # "none" THEN [err |-> error, e |-> e]
    ELSE [err |-> "none",
          e |-> [e EXCEPT !.rows = rows.v,
                          !.keys = keys.v,
                          !.nested = nested.e,
                          !._member_index = mi.v,
                          !._class_index = ci.v,
                          !._class_index_to_members = ctm.v]]

\* Lines 357-369 for the outcomes of subscripting each member.
GetItemMembers(e, rows, keys, nested, mi, ci, ctm) ==
    GetItemCopy(e,
                FirstErr(<<rows.err, keys.err, nested.err, mi.err, ci.err,
                           ctm.err>>),
                rows, keys, nested, mi, ci, ctm)

\* The nested members in __dict__ order, for the outcome g of the first
\* and the outcome r of those after it: the first exception raised.
NestedResult(g, r) ==
    [err |-> IF g.err # "none" THEN g.err ELSE r.err, e |-> <<g.e>> \o r.e]

RECURSIVE __getitem__(_, _)
RECURSIVE NestedRead(_, _)

\* Lines 359-360 for each nested Indexable: v[member_ind].
NestedRead(nested, member_ind) ==
    IF nested = <<>> THEN [err |-> "none", e |-> <<>>]
    ELSE NestedResult(__getitem__(Head(nested), member_ind),
                      NestedRead(Tail(nested), member_ind))

\* Lines 355-371 for the member selection member_ind: every array member and
\* index array is subscripted by member_ind, the nested Indexable is read
\* with member_ind, the class index is subscripted by class_ind.
GetItemAt(e, class_ind, member_ind) ==
    GetItemMembers(e,
        GetArr(e.rows, member_ind),
        GetArr(e.keys, member_ind),
        NestedRead(e.nested, member_ind),
        GetArr(e._member_index, member_ind),
        ClassIndexItem(e._class_index, class_ind),
        GetArr(e._class_index_to_members, member_ind))

\* __getitem__ for the outcome q of _query_index.
GetItemQueried(e, class_ind, q) ==
    IF q.err # "none" THEN [err |-> q.err, e |-> e]
    ELSE GetItemAt(e, class_ind, q.ind)

\* Indexable.__getitem__: [err, e] with e the copy returned (the source when
\* an exception is raised; the source is never changed).
__getitem__(e, class_ind) ==
    GetItemQueried(e, class_ind, _query_index(e, class_ind))

\* np.delete(v, np.s_[class_ind], axis=0) for the class index v.
ClassIndexDelete(ci, class_ind) ==
    IF ci.nd = 0 THEN [err |-> "AxisError", v |-> ci]
    ELSE ClassIndexArray(NpDelete(ci.a, class_ind))

\* The index_values that names the stored index attribute.
AttributeSpec(e) ==
    IF e._class_index_attribute = "None" THEN NoneSpec
    ELSE StrSpec(e._class_index_attribute)

\* Line 403: the index rebuilt, unless the last np.delete raised.
DelSetIndex(e, d) ==
    IF d.err # "none" THEN [err |-> d.err, e |-> e]
    ELSE set_index([e EXCEPT !._class_index_to_members = d.v],
                   AttributeSpec(e))

\* _class_index replaced (line 401), then _class_index_to_members.
DelClassIndex(e, member_ind, d) ==
    IF d.err # "none" THEN [err |-> d.err, e |-> e]
    ELSE DelSetIndex([e EXCEPT !._class_index = d.v],
                     NpDelete(e._class_index_to_members, member_ind))

\* _member_index replaced, then _class_index.
DelMemberIndex(e, class_ind, member_ind, d) ==
    IF d.err # "none" THEN [err |-> d.err, e |-> e]
    ELSE DelClassIndex([e EXCEPT !._member_index = d.v], member_ind,
                       ClassIndexDelete(e._class_index, class_ind))

\* The nested Indexable after `del v[member_ind]` (line 391), then
\* _member_index; the nested entity keeps what its own delete changed.
DelNested(e, class_ind, member_ind, d) ==
    IF d.err # "none" THEN [err |-> d.err, e |-> [e EXCEPT !.nested = d.e]]
    ELSE DelMemberIndex([e EXCEPT !.nested = d.e], class_ind, member_ind,
                        NpDelete(e._member_index, member_ind))

RECURSIVE __delitem__(_, _)
RECURSIVE NestedDelete(_, _)

\* The nested Indexables after the outcome d of the first one's delete: the
\* others are not reached when it raised.
NestedDeleted(d, rest, member_ind) ==
    IF d.err # "none" THEN [err |-> d.err, e |-> <<d.e>> \o rest]
    ELSE NestedResult(d, NestedDelete(rest, member_ind))

\* Lines 390-391 for each nested Indexable: del v[member_ind].
NestedDelete(nested, member_ind) ==
    IF nested = <<>> THEN [err |-> "none", e |-> <<>>]
    ELSE NestedDeleted(__delitem__(Head(nested), member_ind), Tail(nested),
                       member_ind)

\* The second array member replaced, then the nested Indexable.
DelKeys(e, class_ind, member_ind, d) ==
    IF d.err # "none" THEN [err |-> d.err, e |-> e]
    ELSE DelNested([e EXCEPT !.keys = d.v], class_ind, member_ind,
                   NestedDelete(e.nested, member_ind))

\* The first array member replaced (line 383), then the second.
DelRows(e, class_ind, member_ind, d) ==
    IF d.err # "none" THEN [err |-> d.err, e |-> e]
    ELSE DelKeys([e EXCEPT !.rows = d.v], class_ind, member_ind,
                 NpDelete(e.keys, member_ind))

\* __delitem__ for the outcome q of _query_index.
DelQueried(e, class_ind, q) ==
    IF q.err # "none" THEN [err |-> q.err, e |-> e]
    ELSE DelRows(e, class_ind, q.ind, NpDelete(e.rows, q.ind))

\* Indexable.__delitem__: [err, e] with e the entity afterwards. The members
\* are replaced one by one in __dict__ order, so an exception leaves the
\* members before it changed.
__delitem__(e, class_ind) ==
    DelQueried(e, class_ind, _query_index(e, class_ind))


\* Rank of a key value in the order sort_values compares strings by.
KeyOrd(v) == CASE v = "a" -> 1 [] v = "b" -> 2 [] v = "c" -> 3

\* The name under which a nested member's row array is an attribute of
\* the nested entity (and of no attribute of the entity itself).
NestedAttr == "x"

\* Lines 474-499: the arrays appended to `attributes` for one sort key: the
\* entity's own attribute, or else the attribute of every nested Indexable
\* that has it. Key values are given by their rank.
ResolveAttribute(e, by_i) ==
    IF by_i = "rows" THEN <<e.rows>>
    ELSE IF by_i = "keys"
    THEN <<[p \in 1..Len(e.keys) |-> KeyOrd(e.keys[p])]>>
    ELSE IF by_i = NestedAttr
    THEN [k \in 1..Len(e.nested) |-> e.nested[k].rows]
    ELSE <<>>

\* Is row p before row q in the order of the keys cols (arrays of numbers),
\* each ascending or descending? Rows with equal keys keep their order
\* (kind="stable").
RECURSIVE KeyLess(_, _, _, _)
KeyLess(cols, ascending, p, q) ==
    IF cols = <<>> THEN FALSE
    ELSE LET a == Head(cols)[p + 1]
             b == Head(cols)[q + 1]
         IN  IF a = b THEN KeyLess(Tail(cols), Tail(ascending), p, q)
             ELSE IF Head(ascending) THEN a < b ELSE a > b

RowBefore(cols, ascending, p, q) ==
    KeyLess(cols, ascending, p, q)
    \/ (~KeyLess(cols, ascending, q, p) /\ p < q)

\* df.sort_values(by, ascending, kind="stable").index.values for n rows.
SortedIndices(cols, ascending, n) ==
    LET rank(p) == Cardinality({q \in 0..(n - 1) :
                                    RowBefore(cols, ascending, q, p)})
    IN  [j \in 1..n |-> CHOOSE p \in 0..(n - 1) : rank(p) = j - 1]

\* Lines 542-546: the entity takes the copy's __dict__ when inplace, else
\* the copy is returned; s2 is the outcome of setting the entity's own
\* index again (line 534).
SortFinish(inplace, copy, s2) ==
    IF s2.err # "none" THEN [err |-> s2.err, e |-> s2.e, ret |-> <<>>]
    ELSE IF inplace THEN [err |-> "none", e |-> copy, ret |-> <<>>]
    ELSE [err |-> "none", e |-> s2.e, ret |-> <<copy>>]

\* Lines 532-537 for the outcome c1 of set_index on the copy: the entity
\* self, whose index was reset, gets its index attribute back if it had one.
SortReindex(self, index_attribute, inplace, c1) ==
    IF c1.err # "none" THEN [err |-> c1.err, e |-> self, ret |-> <<>>]
    ELSE SortFinish(inplace, c1.e,
                    IF index_attribute.kind = "none"
                    THEN [err |-> "none", e |-> self]
                    ELSE set_index(self, index_attribute))

\* Line 531 for the outcome g of self[sorted_indices].
SortCopy(self, index_attribute, inplace, g) ==
    IF g.err # "none" THEN [err |-> g.err, e |-> self, ret |-> <<>>]
    ELSE SortReindex(self, index_attribute, inplace,
                     set_index(g.e, index_attribute))

\* Line 529 for the outcome s1 of self.set_index().
SortReset(index_attribute, inplace, sorted_indices, s1) ==
    IF s1.err # "none" THEN [err |-> s1.err, e |-> s1.e, ret |-> <<>>]
    ELSE SortCopy(s1.e, index_attribute, inplace,
                  __getitem__(s1.e, ArrSel(sorted_indices)))

\* Lines 501-529 for the key columns data: pd.DataFrame raises ValueError
\* for columns of different lengths.
SortData(e, inplace, ascending, data) ==
    IF \E j \in 1..Len(data) : Len(data[j]) # Len(data[1])
    THEN [err |-> "ValueError", e |-> e, ret |-> <<>>]
    ELSE SortReset(AttributeSpec(e), inplace,
                   SortedIndices(data, ascending, Len(data[1])),
                   set_index(e, NoneSpec))

\* zip(by_, attributes): the first len(by_) arrays found.
SortZip(by, attributes) == [j \in 1..Len(by) |-> attributes[j]]

\* A variant in which the index is reset before the keys are looked up.
SortFoundAfterReset(e, by, inplace, ascending, found) ==
    IF \E j \in 1..Len(by) : found[j] = <<>>
    THEN [err |-> "AttributeError", e |-> set_index(e, NoneSpec).e,
          ret |-> <<>>]
    ELSE SortData(e, inplace, ascending, SortZip(by, Flatten(found)))

\* Lines 474-508 for the arrays found for each key.
SortFound(e, by, inplace, ascending, found) ==
    IF \E j \in 1..Len(by) : found[j] = <<>>
    THEN [err |-> "AttributeError", e |-> e, ret |-> <<>>]
    ELSE SortData(e, inplace, ascending, SortZip(by, Flatten(found)))

\* Indexable.sort_values(by, inplace, ascending) for lists by and ascending
\* of one length: [err, e, ret] with e the entity afterwards and ret the
\* sequence holding the returned copy, if one is returned.
sort_values(e, by, inplace, ascending) ==
    SortFound(e, by, inplace, ascending,
              [j \in 1..Len(by) |-> ResolveAttribute(e, by[j])])

\* A variant of the checks that compares the numbers and booleans only, not
\* the strings (the frame, the name of the index attribute).
ConcatCheckIndexOnly(first, v) ==
    FirstErr(<<
        IF first._member_length # v._member_length
        THEN "AssertionError" ELSE "none",
        IF first._class_index_to_members_is_slice
           # v._class_index_to_members_is_slice
        THEN "AssertionError" ELSE "none">>)

\* Lines 594-609: the exception the attribute k of a further input v raises
\* against the first input (data), "none" if it is appended or passes. The
\* attributes are visited in __dict__ order: the members of the subclass,
\* the attributes set_index assigns, then the cursor idx if an iteration
\* has set it (data has no such key when the first input has none).
ConcatCheck(first, v) ==
    FirstErr(<<
        IF first.frame # v.frame THEN "AssertionError" ELSE "none",
        IF first._member_length # v._member_length
        THEN "AssertionError" ELSE "none",
        IF v._class_index_attribute # "None"
           /\ first._class_index_attribute # v._class_index_attribute
        THEN "AssertionError" ELSE "none",
        IF first._class_index.nd = 0 /\ v._class_index.nd = 1
        THEN "AttributeError" ELSE "none",
        IF first._class_index_to_members_is_slice
           # v._class_index_to_members_is_slice
        THEN "AssertionError" ELSE "none",
        IF v.idx = <<>> THEN "none"
        ELSE IF first.idx = <<>> THEN "KeyError"
        ELSE IF first.idx # v.idx THEN "AssertionError" ELSE "none">>)

\* The class-index arrays concatenate joins: those of the inputs whose
\* class index is an array, or the first input's scalar left as it is.
ConcatClassIndex(indexables) ==
    IF indexables[1]._class_index.nd = 0 THEN indexables[1]._class_index
    ELSE [nd |-> 1,
          a |-> Flatten([j \in 1..Len(indexables) |->
                    IF indexables[j]._class_index.nd = 1
                    THEN indexables[j]._class_index.a ELSE <<>>])]

\* Lines 611-630 for the outcome of concatenating the nested Indexables:
\* the joined members, then the index set again.
ConcatJoin(indexables, nested) ==
    IF nested.err # "none" THEN [err |-> nested.err, e |-> indexables[1]]
    ELSE set_index(
             [indexables[1] EXCEPT
                 !.rows = Flatten([j \in 1..Len(indexables) |->
                                      indexables[j].rows]),
                 !.keys = Flatten([j \in 1..Len(indexables) |->
                                      indexables[j].keys]),
                 !.nested = nested.e,
                 !._member_index =
                     Flatten([j \in 1..Len(indexables) |->
                                 indexables[j]._member_index]),
                 !._class_index = ConcatClassIndex(indexables),
                 !._class_index_to_members =
                     Flatten([j \in 1..Len(indexables) |->
                                 indexables[j]._class_index_to_members])],
             AttributeSpec(indexables[1]))

RECURSIVE concatenate(_)
RECURSIVE NestedConcat(_, _)

\* Lines 611-616 for the nested Indexables from the k-th on: each is the
\* concatenate of the inputs' k-th nested Indexables.
NestedConcat(indexables, k) ==
    IF k > Len(indexables[1].nested) THEN [err |-> "none", e |-> <<>>]
    ELSE NestedResult(concatenate([j \in 1..Len(indexables) |->
                                      indexables[j].nested[k]]),
                      NestedConcat(indexables, k + 1))

\* concatenate after the checks of lines 594-609.
ConcatChecked(indexables, checks) ==
    IF checks # "none" THEN [err |-> checks, e |-> indexables[1]]
    ELSE ConcatJoin(indexables, NestedConcat(indexables, 1))

\* concatenate(indexables) for a non-empty list of entities of one schema:
\* [err, e] with e the entity returned.
concatenate(indexables) ==
    ConcatChecked(indexables,
                  FirstErr([j \in 1..(Len(indexables) - 1) |->
                               ConcatCheck(indexables[1], indexables[j + 1])]))

\* A variant of the step of __next__ that leaves the cursor where it is.
NextReadNoAdvance(self, r) ==
    IF r.err # "none" THEN [err |-> r.err, e |-> self, ret |-> <<>>]
    ELSE [err |-> "none", e |-> self, ret |-> <<r.e>>]

\* Lines 413-416 for the outcome r of self[self.idx]: the cursor advances
\* and the copy is returned, unless the read raised.
NextRead(self, r) ==
    IF r.err # "none" THEN [err |-> r.err, e |-> self, ret |-> <<>>]
    ELSE [err |-> "none",
          e |-> [self EXCEPT !.idx = <<self.idx[1] + 1>>],
          ret |-> <<r.e>>]

\* A variant of __next__ that leaves the cursor past the end when it raises
\* StopIteration.
NextStaysExhausted(self) ==
    IF self.idx = <<>>
    THEN [err |-> "AttributeError", e |-> self, ret |-> <<>>]
    ELSE IF self._class_index.nd = 0
            \/ ~InBounds(self.idx[1], Len(self._class_index.a))
    THEN [err |-> "StopIteration", e |-> self, ret |-> <<>>]
    ELSE NextRead(self, __getitem__(self, IntSel(self.idx[1])))

\* Indexable.__next__: [err, e, ret]. self.idx is no attribute before the
\* first __iter__; subscripting the class index raises IndexError past its
\* end (and for a scalar class index), which resets the cursor and raises
\* StopIteration.
__next__(self) ==
    IF self.idx = <<>>
    THEN [err |-> "AttributeError", e |-> self, ret |-> <<>>]
    ELSE IF self._class_index.nd = 0
            \/ ~InBounds(self.idx[1], Len(self._class_index.a))
    THEN [err |-> "StopIteration", e |-> [self EXCEPT !.idx = <<0>>],
          ret |-> <<>>]
    ELSE NextRead(self, __getitem__(self, IntSel(self.idx[1])))

\* A variant of __iter__ that leaves a cursor that is there where it is.
IterKeepsCursor(self) ==
    [err |-> "none",
     e |-> IF self.idx = <<>> THEN [self EXCEPT !.idx = <<0>>] ELSE self]

\* Indexable.__iter__: the cursor set to 0; self is returned.
__iter__(self) == [err |-> "none", e |-> [self EXCEPT !.idx = <<0>>]]

\* A variant of range that leaves out a last step shorter than `step`.
PyRangeWhole(stop, step) == [j \in 1..(stop \div step) |-> (j - 1) * step]

\* range(0, stop, step) for step >= 1.
PyRange(stop, step) ==
    [j \in 1..((stop + step - 1) \div step) |-> (j - 1) * step]

\* The chunks a generator has yielded, for the outcomes of its reads: all
\* of them, or the exception of the first read that raised.
ChunksYielded(reads) ==
    [err |-> FirstErr([j \in 1..Len(reads) |-> reads[j].err]),
     ret |-> [j \in 1..Len(reads) |-> reads[j].e]]

\* list(self.yield_chunks(chunk_size)) for chunk_size >= 1: [err, ret] with
\* ret the sub-entities in the order they are yielded.
yield_chunks(self, chunk_size) ==
    ChunksYielded([j \in 1..Len(PyRange(EntityLen(self), chunk_size)) |->
        __getitem__(self,
            SliceSel(<<PyRange(EntityLen(self), chunk_size)[j]>>,
                     <<PyRange(EntityLen(self), chunk_size)[j] + chunk_size>>,
                     <<>>))])

-----------------------------------------------------------------------------
(* adam_core.utils.spice.setup_SPICE: the process' SPICE state is          *)
(*   - environ: whether ADAM_CORE_SPICE_INITIALIZED_<pid> is in os.environ; *)
(*   - furnished: how many times sp.furnsh has loaded each kernel;          *)
(* and, recorded for the properties, the last call (its kernels and force   *)
(* arguments, how it ended, the loads before it, the number of calls that   *)
(* had completed before it) and whether any call so far passed force=True.  *)

\* The kernel files: two of the six of DEFAULT_KERNELS.
Kernels == {"leapseconds", "de440"}

\* The process before its first setup_SPICE call.
NoSpice ==
    [environ |-> FALSE, furnished |-> [k \in Kernels |-> 0],
     kernels |-> <<>>, force |-> FALSE, last |-> "none",
     before |-> [k \in Kernels |-> 0], earlier |-> 0, completed |-> 0,
     forced |-> FALSE]

\* As EarlyReturn, but the force argument is not consulted.
EarlyReturnUnforced(s, force) == s.environ

\* `if env_var in os.environ and not force: return`.
EarlyReturn(s, force) == s.environ /\ ~force

\* `for kernel in kernels: sp.furnsh(kernel)`, of which the first n calls
\* return.
Furnish(furnished, kernels, n) ==
    [k \in Kernels |->
        furnished[k] + Cardinality({j \in 1..n : kernels[j] = k})]

\* The call as the caller's record of it: state s, arguments kernels and
\* force.
SpiceCalled(s, kernels, force) ==
    [s EXCEPT !.kernels = kernels, !.force = force, !.before = s.furnished,
              !.earlier = s.completed, !.forced = s.forced \/ force]

\* setup_SPICE(kernels, force) in state s. fail = 0: every sp.furnsh
\* returns; fail = j: the j-th sp.furnsh raises, after j - 1 kernels were
\* loaded, and os.environ is not written.
setup_SPICE(s, kernels, force, fail) ==
    IF EarlyReturn(s, force)
    THEN [err |-> "none",
          e |-> [s EXCEPT !.last = "returned",
                          !.completed = s.completed + 1]]
    ELSE IF fail > 0
    THEN [err |-> "SpiceyError",
          e |-> [s EXCEPT !.last = "raised",
                          !.furnished = Furnish(s.furnished, kernels,
                                                fail - 1)]]
    ELSE [err |-> "none",
          e |-> [s EXCEPT !.last = "loaded", !.environ = TRUE,
                          !.completed = s.completed + 1,
                          !.furnished = Furnish(s.furnished, kernels,
                                                Len(kernels))]]

-----------------------------------------------------------------------------
(* Two for statements over one entity. Both hold the entity itself as      *)
(* their iterator; the record `loops` keeps, for the properties, what each  *)
(* statement has received: per statement its state ("new": iter() not yet   *)
(* called, "running", "done": next() has raised StopIteration) and the      *)
(* class-index positions its body has received; `stopped` says that the     *)
(* last call on the entity was a next() that raised StopIteration,          *)
(* `after_stop` that this was so before the call just made.                 *)

\* No for statement is under way.
NoLoops ==
    [program |-> "none", state |-> [i \in 1..2 |-> "new"],
     got |-> [i \in 1..2 |-> <<>>], stopped |-> FALSE, after_stop |-> FALSE]

-----------------------------------------------------------------------------
(* Inputs *)

\* Row ids of a fresh member array of length n.
Ids(n) == [j \in 1..n |-> j]

\* The key arrays of length n.
KeySeqs(n) == [1..n -> KeySet]

\* A nested Indexable of length n, constructed with the default index.
NestedOf(n) ==
    set_index(RawEntity(Ids(n), [j \in 1..n |-> "a"], <<>>), NoneSpec).e

\* Explicit index arrays offered for an entity of n rows: one key for all
\* rows, alternating keys, and an array one key too long.
ExplicitArrays(n) ==
    {[j \in 1..n |-> "a"],
     [j \in 1..n |-> IF j % 2 = 1 THEN "a" ELSE "b"],
     [j \in 1..(n + 1) |-> "a"]}

IndexSpecs(n) ==
    {NoneSpec, StrSpec("keys"), StrSpec("rows"), StrSpec("missing"),
     ListSpec(<<>>)}
    \cup {ArraySpec(a) : a \in ExplicitArrays(n)}

OptInts == {<<>>} \cup {<<i>> : i \in 0..MaxLen}

\* Integers, unit-step ranges [a:b] with a <= b, [a:], [:b], [:], and a
\* selection of an unsupported type.
Selections ==
    {IntSel(i) : i \in -2..MaxLen}
    \cup {s \in {SliceSel(a, b, <<>>) : a \in OptInts, b \in OptInts} :
              s.start = <<>> \/ s.stop = <<>> \/ s.start[1] <= s.stop[1]}
    \cup {OtherSel}

\* by and ascending lists of sort_values.
SortKeys ==
    {<<<<"rows">>, <<asc>>>> : asc \in BOOLEAN}
    \cup {<<<<"keys">>, <<asc>>>> : asc \in BOOLEAN}
    \cup {<<<<NestedAttr>>, <<asc>>>> : asc \in BOOLEAN}
    \cup {<<<<"keys", "rows">>, <<a1, a2>>>> : a1 \in BOOLEAN, a2 \in BOOLEAN}
    \cup {<<<<"missing">>, <<TRUE>>>>,
          <<<<"rows", "missing">>, <<TRUE, TRUE>>>>}

NoOp == [name |-> "new", sel |-> OtherSel, spec |-> NoneSpec, by |-> <<>>,
         ascending |-> <<>>, inplace |-> FALSE, h |-> 0, others |-> <<>>]

-----------------------------------------------------------------------------
(* The state machine *)

\* A subclass instance whose members are assigned and whose
\* Indexable.__init__ has not run yet. The arrays may disagree in length: the
\* keys array with the rows array, or the nested entity with the arrays.
Init ==
    /\ \E n \in 0..MaxLen, m \in 0..MaxLen, nl \in -1..MaxLen :
          /\ m \in {n - 1, n, n + 1}
          /\ nl \in {-1, n - 1, n}
          /\ \E keys \in KeySeqs(m) :
                /\ nl = n - 1 => keys = [j \in 1..m |-> "a"]
                /\ ent = RawEntity(Ids(n), keys,
                                   IF nl = -1 THEN <<>> ELSE <<NestedOf(nl)>>)
    /\ prev = ent
    /\ res = <<>>
    /\ err = "none"
    /\ op = NoOp
    /\ calls = 0
    /\ spice = NoSpice
    /\ loops = NoLoops

\* No call is in progress or recorded: the caller is between two statements.
Idle == err = "none" /\ op.name \in {"new", "idle"}

\* The call returns or raises: the entity afterwards, the entity returned
\* (none when it raised) and the exception.
Outcome(e, ret, error) ==
    /\ ent' = e
    /\ res' = IF error = "none" THEN ret ELSE <<>>
    /\ err' = error

\* The outcome r = [err, e] of a call that changes the entity.
Changed(r) == Outcome(r.e, <<>>, r.err)

\* The outcome r = [err, e] of a call that returns the entity r.e.
Returned(r) == Outcome(ent, <<r.e>>, r.err)

\* Indexable.__init__(index_values)
Construct(spec) ==
    /\ Idle
    /\ ~ent.built
    /\ Changed(set_index(ent, spec))
    /\ prev' = ent
    /\ op' = [NoOp EXCEPT !.name = "init", !.spec = spec]
    /\ calls' = calls
    /\ spice' = spice
    /\ loops' = loops

\* entity.set_index(index_values); the index setter and deleter.
SetIndex(spec) ==
    /\ Idle
    /\ ent.built
    /\ calls < MaxCalls
    /\ Changed(set_index(ent, spec))
    /\ prev' = ent
    /\ op' = [NoOp EXCEPT !.name = "set_index", !.spec = spec]
    /\ calls' = calls + 1
    /\ spice' = spice
    /\ loops' = loops

\* A variant of __getitem__ that subscripts the members of the source itself
\* (copy_self bound to self), so the source becomes the entity returned.
SourceAliased(self, r) == r.e

\* The source of a read after the call, for the outcome r of __getitem__:
\* line 355 takes a copy of self and lines 357-369 assign to the copy's
\* __dict__ only.
SourceAfterRead(self, r) == self

\* The outcome r = [err, e] of a read of the entity.
ReadOutcome(r) == Outcome(SourceAfterRead(ent, r), <<r.e>>, r.err)

\* entity[class_ind]
Read(sel) ==
    /\ Idle
    /\ ent.built
    /\ ReadOutcome(__getitem__(ent, sel))
    /\ prev' = ent
    /\ op' = [NoOp EXCEPT !.name = "read", !.sel = sel]
    /\ calls' = calls
    /\ spice' = spice
    /\ loops' = loops

\* del entity[class_ind]
Delete(sel) ==
    /\ Idle
    /\ ent.built
    /\ calls < MaxCalls
    /\ Changed(__delitem__(ent, sel))
    /\ prev' = ent
    /\ op' = [NoOp EXCEPT !.name = "delete", !.sel = sel]
    /\ calls' = calls + 1
    /\ spice' = spice
    /\ loops' = loops

\* The outcome r = [err, e, ret] of sort_values.
Sorted(r) == Outcome(r.e, r.ret, r.err)

\* entity.sort_values(by, inplace, ascending)
Sort(by, inplace, ascending) ==
    /\ Idle
    /\ ent.built
    /\ Sorted(sort_values(ent, by, inplace, ascending))
    /\ prev' = ent
    /\ op' = [NoOp EXCEPT !.name = "sort", !.by = by, !.inplace = inplace,
                          !.ascending = ascending]
    /\ calls' = calls + 1
    /\ spice' = spice
    /\ loops' = loops

\* concatenate([r1, r2]) for the outcomes of two reads; a read that raises
\* ends the statement.
ConcatReads(r1, r2) ==
    IF r1.err # "none" THEN r1
    ELSE IF r2.err # "none" THEN r2
    ELSE concatenate(<<r1.e, r2.e>>)

\* concatenate([entity[0:h], entity[h:len(entity)]])
SplitConcat(h) ==
    /\ Idle
    /\ ent.built
    /\ Returned(ConcatReads(__getitem__(ent, SliceSel(<<0>>, <<h>>, <<>>)),
                            __getitem__(ent, SliceSel(<<h>>, <<EntityLen(ent)>>,
                                                      <<>>))))
    /\ prev' = ent
    /\ op' = [NoOp EXCEPT !.name = "split_concat", !.h = h]
    /\ calls' = calls
    /\ spice' = spice
    /\ loops' = loops

\* The caller goes on to its next statement after a call that returned: the
\* returned entity and the record of the call are dropped.
Continue ==
    /\ err = "none"
    /\ op.name \notin {"new", "idle"}
    /\ ent' = ent
    /\ prev' = ent
    /\ res' = <<>>
    /\ err' = "none"
    /\ op' = [NoOp EXCEPT !.name = "idle"]
    /\ calls' = calls
    /\ spice' = spice
    /\ loops' = loops

Next ==
    \/ \E spec \in IndexSpecs(Len(ent.rows)) : Construct(spec)
    \/ \E spec \in IndexSpecs(Len(ent.rows)) : SetIndex(spec)
    \/ \E sel \in Selections : Read(sel)
    \/ \E sel \in Selections : Delete(sel)
    \/ /\ calls < MaxCalls
       /\ \E k \in SortKeys, inplace \in BOOLEAN : Sort(k[1], inplace, k[2])
    \/ \E h \in 0..MaxLen : SplitConcat(h)
    \/ Continue

Spec == Init /\ [][Next]_vars

-----------------------------------------------------------------------------
(* The index builder and the query engine on their own: an entity of one   *)
(* keys array over three key values, indexed by default or on "keys", and  *)
(* read by integers, unit-step ranges, the stepped ranges [::2] and [1::2] *)
(* and lists of positions.                                                 *)

GroupSelections ==
    {IntSel(i) : i \in 0..(MaxKeys - 1)}
    \cup {SliceSel(<<a>>, <<b>>, <<>>) : a \in 0..MaxKeys, b \in 1..MaxKeys}
    \cup {SliceSel(<<>>, <<>>, <<2>>), SliceSel(<<1>>, <<>>, <<2>>)}
    \cup {ArrSel(<<0>>), ArrSel(<<1>>), ArrSel(<<0, 1>>), ArrSel(<<0, 2>>),
          ArrSel(<<2, 0>>)}

InitGroup ==
    /\ \E n \in 0..MaxKeys :
          \E keys \in [1..n -> GroupKeys] :
              ent = RawEntity(Ids(n), keys, <<>>)
    /\ prev = ent
    /\ res = <<>>
    /\ err = "none"
    /\ op = NoOp
    /\ calls = 0
    /\ spice = NoSpice
    /\ loops = NoLoops

NextGroup ==
    \/ Construct(NoneSpec)
    \/ Construct(StrSpec("keys"))
    \/ SetIndex(StrSpec("keys"))
    \/ \E sel \in GroupSelections : Read(sel)
    \/ Continue

SpecGroup == InitGroup /\ [][NextGroup]_vars

-----------------------------------------------------------------------------
(* Repeated sorting: an entity with a nested entity and the default index, *)
(* sorted up to MaxSorts times, in place or into a copy.                   *)

InitSort ==
    /\ \E n \in 0..MaxLen :
          \E keys \in KeySeqs(n) :
              ent = RawEntity(Ids(n), keys, <<NestedOf(n)>>)
    /\ prev = ent
    /\ res = <<>>
    /\ err = "none"
    /\ op = NoOp
    /\ calls = 0
    /\ spice = NoSpice
    /\ loops = NoLoops

NextSort ==
    \/ Construct(NoneSpec)
    \/ /\ calls < MaxSorts
       /\ \E k \in SortKeys, inplace \in BOOLEAN : Sort(k[1], inplace, k[2])
    \/ Continue

SpecSort == InitSort /\ [][NextSort]_vars

-----------------------------------------------------------------------------
(* Attribute lookup of sort_values: an entity with one or two nested        *)
(* Indexables that both carry the attribute NestedAttr (with ties in the    *)
(* first one's values), sorted once by one key or by two.                   *)

\* A nested Indexable whose attribute NestedAttr holds the array x,
\* constructed with the default index.
NestedWith(x) ==
    set_index(RawEntity(x, [j \in 1..Len(x) |-> "a"], <<>>), NoneSpec).e

\* The nested members offered for an entity of n rows.
LookupNested(n) ==
    {<<NestedWith(x)>> : x \in [1..n -> 1..2]}
    \cup {<<NestedWith(x), NestedWith([j \in 1..n |-> n + 1 - j])>> :
             x \in [1..n -> 1..2]}

LookupKeys ==
    {<<<<NestedAttr>>, <<asc>>>> : asc \in BOOLEAN}
    \cup {<<by, <<a1, a2>>>> :
             by \in {<<NestedAttr, "rows">>, <<"rows", NestedAttr>>,
                     <<NestedAttr, "keys">>},
             a1 \in BOOLEAN, a2 \in BOOLEAN}

InitLookup ==
    /\ \E n \in 1..MaxLen :
          \E keys \in KeySeqs(n), nested \in LookupNested(n) :
              ent = RawEntity(Ids(n), keys, nested)
    /\ prev = ent
    /\ res = <<>>
    /\ err = "none"
    /\ op = NoOp
    /\ calls = 0
    /\ spice = NoSpice
    /\ loops = NoLoops

NextLookup ==
    \/ Construct(NoneSpec)
    \/ /\ calls < MaxCalls
       /\ \E k \in LookupKeys, inplace \in BOOLEAN : Sort(k[1], inplace, k[2])
    \/ Continue

SpecLookup == InitLookup /\ [][NextLookup]_vars

-----------------------------------------------------------------------------
(* Chained reads, entity[selection][j]: the entity returned by a read is   *)
(* read in turn.                                                           *)

\* The first selections of a chain: integers and unit-step ranges.
ChainSelections ==
    {IntSel(i) : i \in 0..(MaxLen - 1)}
    \cup {SliceSel(<<a>>, <<b>>, <<>>) : a \in 0..MaxLen, b \in 1..MaxLen}

InitChain ==
    /\ \E n \in 0..MaxLen :
          \E keys \in KeySeqs(n) :
              ent = RawEntity(Ids(n), keys, <<>>)
    /\ prev = ent
    /\ res = <<>>
    /\ err = "none"
    /\ op = NoOp
    /\ calls = 0
    /\ spice = NoSpice
    /\ loops = NoLoops

\* (entity[class_ind])[j]: the integer read of the entity the read before
\* has returned. prev records the entity that is read, op.h the integer.
ReadAgain(j) ==
    /\ op.name = "read"
    /\ err = "none"
    /\ res # <<>>
    /\ Returned(__getitem__(res[1], IntSel(j)))
    /\ prev' = res[1]
    /\ op' = [op EXCEPT !.name = "read_read", !.h = j]
    /\ calls' = calls
    /\ spice' = spice
    /\ loops' = loops

NextChain ==
    \/ Construct(NoneSpec)
    \/ Construct(StrSpec("keys"))
    \/ \E sel \in ChainSelections : Read(sel)
    \/ \E j \in 0..(MaxLen - 1) : ReadAgain(j)
    \/ Continue

SpecChain == InitChain /\ [][NextChain]_vars

-----------------------------------------------------------------------------
(* concatenate of separately constructed entities: the entity and up to    *)
(* MaxOthers further entities of the same members and the same index       *)
(* attribute, each with its own row count, keys and frame.                 *)

MaxOthers == 2

\* Row ids of a further input of m rows, distinct from those of the entity.
OtherIds(m) == [j \in 1..m |-> MaxLen + j]

\* Key arrays of n rows: one key for all rows, or alternating keys.
ConcatKeys(n) ==
    {[j \in 1..n |-> "a"], [j \in 1..n |-> IF j % 2 = 1 THEN "a" ELSE "b"]}

\* The key array of a further input of m rows: alternating keys.
OtherKeys(m) == {[j \in 1..m |-> IF j % 2 = 1 THEN "a" ELSE "b"]}

\* Subclass(rows, keys, frame) constructed with Indexable.__init__(spec).
Constructed(rows, keys, frame, spec) ==
    set_index([RawEntity(rows, keys, <<>>) EXCEPT !.frame = frame], spec).e

\* The further inputs offered: entities of 0..MaxLen rows, of either frame,
\* constructed with the index_values `spec`.
OtherEntities(spec) ==
    UNION {{Constructed(OtherIds(m), keys, frame, spec) :
                keys \in OtherKeys(m), frame \in Frames} : m \in 0..MaxLen}

\* The lists of further inputs.
OtherLists(spec) ==
    UNION {[1..k -> OtherEntities(spec)] : k \in 0..MaxOthers}

InitConcat ==
    /\ \E n \in 0..MaxLen :
          \E keys \in ConcatKeys(n) :
              ent = RawEntity(Ids(n), keys, <<>>)
    /\ prev = ent
    /\ res = <<>>
    /\ err = "none"
    /\ op = NoOp
    /\ calls = 0
    /\ spice = NoSpice
    /\ loops = NoLoops

\* concatenate([entity] + others)
Concat(others) ==
    /\ Idle
    /\ ent.built
    /\ Returned(concatenate(<<ent>> \o others))
    /\ prev' = ent
    /\ op' = [NoOp EXCEPT !.name = "concat", !.others = others]
    /\ calls' = calls
    /\ spice' = spice
    /\ loops' = loops

NextConcat ==
    \/ Construct(NoneSpec)
    \/ Construct(StrSpec("keys"))
    \/ \E others \in OtherLists(AttributeSpec(ent)) : Concat(others)
    \/ Continue

SpecConcat == InitConcat /\ [][NextConcat]_vars

-----------------------------------------------------------------------------
(* Iteration: `for item in entity` run to its end, up to MaxIters times,   *)
(* and list(entity.yield_chunks(chunk_size)).                              *)

MaxIters == 2

InitIter == InitChain

\* iter(entity), at the head of a for statement. op.h counts the next()
\* calls of the statement.
Iter ==
    /\ Idle
    /\ ent.built
    /\ calls < MaxIters
    /\ Changed(__iter__(ent))
    /\ prev' = ent
    /\ op' = [NoOp EXCEPT !.name = "iter", !.h = 0]
    /\ calls' = calls + 1
    /\ spice' = spice
    /\ loops' = loops

\* next(entity), called by the for statement after iter() and after every
\* item.
NextItem ==
    /\ op.name \in {"iter", "next"}
    /\ err = "none"
    /\ Sorted(__next__(ent))
    /\ prev' = ent
    /\ op' = [op EXCEPT !.name = "next", !.h = op.h + 1]
    /\ calls' = calls
    /\ spice' = spice
    /\ loops' = loops

\* The for statement ends on StopIteration and the caller goes on.
EndLoop ==
    /\ op.name = "next"
    /\ err = "StopIteration"
    /\ ent' = ent
    /\ prev' = ent
    /\ res' = <<>>
    /\ err' = "none"
    /\ op' = [NoOp EXCEPT !.name = "idle"]
    /\ calls' = calls
    /\ spice' = spice
    /\ loops' = loops

\* The outcome r = [err, ret] of a call that returns the entities r.ret.
ReturnedAll(r) == Outcome(ent, r.ret, r.err)

\* list(entity.yield_chunks(chunk_size))
YieldChunks(chunk_size) ==
    /\ Idle
    /\ ent.built
    /\ ReturnedAll(yield_chunks(ent, chunk_size))
    /\ prev' = ent
    /\ op' = [NoOp EXCEPT !.name = "chunks", !.h = chunk_size]
    /\ calls' = calls
    /\ spice' = spice
    /\ loops' = loops

NextIter ==
    \/ Construct(NoneSpec)
    \/ Construct(StrSpec("keys"))
    \/ Iter
    \/ NextItem
    \/ EndLoop
    \/ \E chunk_size \in 1..(MaxLen + 1) : YieldChunks(chunk_size)
    \/ op.name \notin {"iter", "next"} /\ Continue

SpecIter == InitIter /\ [][NextIter]_vars

\* The record of a call of next() by the for statement: a step of NextIter
\* makes this record exactly if it is a step of NextItem.
NextCalled ==
    /\ op.name \in {"iter", "next"}
    /\ err = "none"
    /\ op' = [op EXCEPT !.name = "next", !.h = op.h + 1]

\* The for statement calls next() again after iter() and after every item,
\* until next() raises.
SpecIterFair == SpecIter /\ WF_op(NextCalled)

-----------------------------------------------------------------------------
(* setup_SPICE called up to MaxSpiceCalls times in one process, one call    *)
(* after the other, each with a list of distinct kernels and a force flag.  *)

MaxSpiceCalls == 3

\* The lists of distinct kernels.
KernelLists ==
    {<<>>} \cup {<<k>> : k \in Kernels}
        \cup {x \in Kernels \X Kernels : x[1] # x[2]}

InitSpice ==
    /\ ent = RawEntity(<<>>, <<>>, <<>>)
    /\ prev = ent
    /\ res = <<>>
    /\ err = "none"
    /\ op = NoOp
    /\ calls = 0
    /\ spice = NoSpice
    /\ loops = NoLoops

SpiceOutcome(r) ==
    /\ spice' = r.e
    /\ err' = r.err

SetupSpice(kernels, force, fail) ==
    /\ err = "none"
    /\ calls < MaxSpiceCalls
    /\ SpiceOutcome(setup_SPICE(SpiceCalled(spice, kernels, force),
                                kernels, force, fail))
    /\ op' = [NoOp EXCEPT !.name = "setup_SPICE"]
    /\ calls' = calls + 1
    /\ UNCHANGED <<ent, prev, res, loops>>

NextSpice ==
    \E kernels \in KernelLists, force \in BOOLEAN :
        \E fail \in 0..Len(kernels) : SetupSpice(kernels, force, fail)

SpecSpice == InitSpice /\ [][NextSpice]_vars

-----------------------------------------------------------------------------
(* Two for statements over the same entity, in one thread. Program          *)
(* "interleaved": each statement is started once and the two advance in any  *)
(* order (zip(entity, entity), two generators over the entity). Program      *)
(* "nested": `for a in entity: for b in entity: pass`, statement 1 the outer *)
(* and statement 2 the inner one, started anew in every pass of the body.   *)

\* The positions kept per statement: the last MaxGot received.
MaxGot == 2 * MaxLen

Received(got, position) ==
    IF Len(got) < MaxGot THEN Append(got, position)
    ELSE Append(Tail(got), position)

InitShared ==
    /\ \E n \in 0..MaxLen :
          \E keys \in KeySeqs(n) :
              ent = RawEntity(Ids(n), keys, <<>>)
    /\ prev = ent
    /\ res = <<>>
    /\ err = "none"
    /\ op = NoOp
    /\ calls = 0
    /\ spice = NoSpice
    /\ \E program \in {"interleaved", "nested"} :
          loops = [NoLoops EXCEPT
                      !.program = program,
                      !.state[2] = IF program = "nested" THEN "done"
                                   ELSE "new"]

\* No exception has ended the program: StopIteration ends a for statement
\* only.
Looping == err \in {"none", "StopIteration"}

\* Statement i is the one to act: it has not ended, and the outer statement
\* of the nested program waits for the inner one to end.
LoopTurn(i) ==
    /\ Looping
    /\ ent.built
    /\ loops.state[i] # "done"
    /\ (loops.program = "nested" /\ i = 1) => loops.state[2] = "done"

\* iter(entity) at the head of statement i.
LoopIter(i) ==
    /\ LoopTurn(i)
    /\ loops.state[i] = "new"
    /\ Changed(__iter__(ent))
    /\ prev' = ent
    /\ op' = [NoOp EXCEPT !.name = "iter", !.h = i]
    /\ calls' = calls
    /\ spice' = spice
    /\ loops' = [loops EXCEPT !.state[i] = "running", !.got[i] = <<>>,
                              !.stopped = FALSE, !.after_stop = FALSE]

\* The statements after next() of statement i, called at the cursor
\* position, has returned an item (the body runs: in the nested program the
\* body of the outer statement starts the inner one), has raised
\* StopIteration (the statement ends) or has raised another exception.
LoopStepped(i, error, position) ==
    IF error = "none"
    THEN [loops EXCEPT !.got[i] = Received(@, position),
                       !.state[2] = IF loops.program = "nested" /\ i = 1
                                    THEN "new" ELSE @,
                       !.stopped = FALSE, !.after_stop = loops.stopped]
    ELSE IF error = "StopIteration"
    THEN [loops EXCEPT !.state[i] = "done",
                       !.stopped = TRUE, !.after_stop = loops.stopped]
    ELSE [loops EXCEPT !.stopped = FALSE, !.after_stop = loops.stopped]

\* next(entity) by statement i, for the outcome r of __next__.
LoopNextOutcome(i, r) ==
    /\ Sorted(r)
    /\ loops' = LoopStepped(i, r.err, ent.idx[1])

LoopNext(i) ==
    /\ LoopTurn(i)
    /\ loops.state[i] = "running"
    /\ LoopNextOutcome(i, __next__(ent))
    /\ prev' = ent
    /\ op' = [NoOp EXCEPT !.name = "next", !.h = i,
                          !.sel = IntSel(ent.idx[1])]
    /\ calls' = calls
    /\ spice' = spice

NextShared ==
    \/ Construct(NoneSpec)
    \/ Construct(StrSpec("keys"))
    \/ \E i \in 1..2 : LoopIter(i)
    \/ \E i \in 1..2 : LoopNext(i)

SpecShared == InitShared /\ [][NextShared]_vars

\* The record of the next call of the nested program: a step of NextShared
\* makes this record, on an entity of the nested program, exactly if it is
\* a step of LoopIter or LoopNext.
NestedCalled ==
    /\ loops.program = "nested"
    /\ \E i \in 1..2 :
          /\ LoopTurn(i)
          /\ op' = IF loops.state[i] = "new"
                   THEN [NoOp EXCEPT !.name = "iter", !.h = i]
                   ELSE [NoOp EXCEPT !.name = "next", !.h = i,
                                     !.sel = IntSel(ent.idx[1])]

\* The nested program goes on as long as a statement has a call to make.
SpecSharedFair == SpecShared /\ WF_op(NestedCalled)

-----------------------------------------------------------------------------
(* Vocabulary of the properties *)

\* The positions (0-based) of the rows of a key array that carry key k.
RowsWithKey(keys, k) == {p \in 0..(Len(keys) - 1) : keys[p + 1] = k}

\* The positions at which a key occurs for the first time.
FirstOccurrences(keys) ==
    {p \in 0..(Len(keys) - 1) : \A q \in 0..(p - 1) : keys[q + 1] # keys[p + 1]}

\* The j-th distinct key (j from 0) in order of first occurrence.
DistinctKey(keys, j) ==
    keys[(CHOOSE p \in FirstOccurrences(keys) :
              Cardinality({q \in FirstOccurrences(keys) : q < p}) = j) + 1]

\* Every key's rows are contiguous.
Contiguous(keys) ==
    \A k \in Elems(keys) :
        \A p \in RowsWithKey(keys, k), q \in RowsWithKey(keys, k) :
            \A m \in p..q : keys[m + 1] = k

\* The elements of arr at the positions of the set P, in array order.
RowsAt(arr, P) == Take(arr, SelectSeq(Arange(Len(arr)), LAMBDA p : p \in P))

\* The nested member, if any, has one row per row of the entity and the
\* intact default index of a freshly constructed entity.
NestedIntact(e) ==
    e.nested # <<>> =>
        LET n == Len(e.rows) IN
        e.nested[1] = [NestedOf(n) EXCEPT !.rows = e.nested[1].rows]
        /\ Len(e.nested[1].rows) = n

\* An entity as the data model describes it: index built, one length for
\* every member.
Consistent(e) ==
    /\ e.built
    /\ Len(e.keys) = Len(e.rows)
    /\ NestedIntact(e)

\* The entity carries the default range index.
DefaultIndexed(e) ==
    /\ e.built
    /\ e._class_index_attribute = "None"
    /\ e._class_index = [nd |-> 1, a |-> Arange(Len(e.rows))]

\* The last call was `name` with an integer selection i, 0 <= i < len.
IntCall(name) ==
    /\ op.name = name
    /\ op.sel.kind = "int"
    /\ op.sel.i >= 0
    /\ op.sel.i < EntityLen(prev)

-----------------------------------------------------------------------------
(* Properties *)

\* C1 (as claimed): on an entity with the default range index, len(entity)
\* is member_length and entity[i], 0 <= i < len, returns an entity of
\* len() 1 whose class index is an array (not a scalar) and whose array
\* members hold exactly row i.
C1_DefaultIndexRead ==
    (IntCall("read") /\ Consistent(prev) /\ DefaultIndexed(prev)) =>
        /\ EntityLen(prev) = prev._member_length
        /\ err = "none"
        /\ res # <<>>
        /\ res[1]._class_index.nd = 1
        /\ Len(res[1]._class_index.a) = 1
        /\ res[1].rows = <<prev.rows[op.sel.i + 1]>>
        /\ res[1].keys = <<prev.keys[op.sel.i + 1]>>

\* C2: after set_index on a keys array in which every key's rows are
\* contiguous, the class index has one position per distinct key,
\* len(entity) is the number of distinct keys, and reading integer position
\* j returns exactly the rows carrying the j-th distinct key in order of
\* first occurrence.
C2_GroupedReadContiguous ==
    (ent.built /\ ent._class_index_attribute = "keys"
        /\ Contiguous(ent.keys)) =>
        /\ EntityLen(ent) = Cardinality(Elems(ent.keys))
        /\ ent._class_index.a = Arange(Cardinality(Elems(ent.keys)))
        /\ IntCall("read") =>
              /\ err = "none"
              /\ res # <<>>
              /\ res[1].rows =
                    RowsAt(ent.rows,
                           RowsWithKey(ent.keys,
                                       DistinctKey(ent.keys, op.sel.i)))
              /\ res[1].keys =
                    RowsAt(ent.keys,
                           RowsWithKey(ent.keys,
                                       DistinctKey(ent.keys, op.sel.i)))

\* C2 witness: keys [a,a,b,c,c]; position 2 (key c) read as rows 4 and 5.
C2_Witness ==
    /\ ent._class_index_attribute = "keys"
    /\ ent.keys = <<"a", "a", "b", "c", "c">>
    /\ EntityLen(ent) = 3
    /\ op.name = "read"
    /\ op.sel = IntSel(2)
    /\ res # <<>>
    /\ res[1].rows = <<4, 5>>

\* C3 (as claimed): after set_index on a keys array in which some key's
\* rows are not contiguous, reading integer position j returns exactly the
\* rows carrying the j-th distinct key, in their original order.
C3_GroupedReadNonContiguous ==
    (ent.built /\ ent._class_index_attribute = "keys"
        /\ ~Contiguous(ent.keys) /\ IntCall("read")) =>
        /\ err = "none"
        /\ res # <<>>
        /\ res[1].rows =
              RowsAt(ent.rows,
                     RowsWithKey(ent.keys, DistinctKey(ent.keys, op.sel.i)))

\* The member positions of the stored row ranges a..b-1 (from 0), joined.
RangePositions(e, a, b) ==
    Flatten([j \in 1..(b - a) |->
                LET r == e._class_index_to_members[a + j]
                IN  [m \in 1..(r[2] - r[1]) |-> r[1] + m - 1]])

\* C7: on a slice-form index a unit-step range [a:b], 0 <= a < b <= len,
\* resolves to the single member range from the start of range a to the
\* stop of range b-1, which selects the same rows in the same order as the
\* row ranges of positions a..b-1 joined.
C7_SliceFusion ==
    (op.name = "read" /\ op.sel.kind = "slice" /\ op.sel.step = <<>>
        /\ prev._class_index_to_members_is_slice
        /\ op.sel.start # <<>> /\ op.sel.stop # <<>>
        /\ op.sel.start[1] < op.sel.stop[1]
        /\ op.sel.stop[1] <= EntityLen(prev)) =>
        LET a == op.sel.start[1]
            b == op.sel.stop[1]
            q == _query_index(prev, op.sel)
        IN  /\ q.err = "none"
            /\ q.ind.kind = "slice"
            /\ q.ind.start = <<prev._class_index_to_members[a + 1][1]>>
            /\ q.ind.stop = <<prev._class_index_to_members[b][2]>>
            /\ SlicePositions(q.ind, Len(prev.rows))
                  = RangePositions(prev, a, b)
            /\ err = "none"
            /\ res # <<>>
            /\ res[1].rows = Take(prev.rows, RangePositions(prev, a, b))

\* C7 witness: keys [a,a,b,c,c]: [1:3] is resolved to rows [2:5].
C7_Witness ==
    /\ op.name = "read"
    /\ op.sel = SliceSel(<<1>>, <<3>>, <<>>)
    /\ prev.keys = <<"a", "a", "b", "c", "c">>
    /\ prev._class_index_attribute = "keys"
    /\ prev._class_index_to_members_is_slice
    /\ _query_index(prev, op.sel).ind = SliceSel(<<2>>, <<5>>, <<1>>)
    /\ res # <<>>
    /\ res[1].rows = <<3, 4, 5>>

\* The class-index position that row p (from 0) belongs to, by the stored
\* mapping.
PositionOfRow(e, p) ==
    IF e._class_index_to_members_is_slice
    THEN CHOOSE j \in 0..(Len(e._class_index_to_members) - 1) :
             /\ e._class_index_to_members[j + 1][1] <= p
             /\ p < e._class_index_to_members[j + 1][2]
    ELSE e._class_index_to_members[p + 1][1]

\* The rows of e that do not belong to class-index position i.
RowsNotOf(e, i) == {p \in 0..(Len(e.rows) - 1) : PositionOfRow(e, p) # i}

\* C4 (as claimed): for an entity with any index and 0 <= i < len(entity),
\* `del entity[i]` completes, reduces len(entity) by one and removes from
\* every array member and the nested entity exactly the rows of position i,
\* the other rows keeping their order.
C4_DeleteAnyIndex ==
    (IntCall("delete") /\ Consistent(prev)) =>
        /\ err = "none"
        /\ EntityLen(ent) = EntityLen(prev) - 1
        /\ ent.rows = RowsAt(prev.rows, RowsNotOf(prev, op.sel.i))
        /\ ent.keys = RowsAt(prev.keys, RowsNotOf(prev, op.sel.i))
        /\ prev.nested # <<>> =>
              /\ ent.nested # <<>>
              /\ ent.nested[1].rows
                    = RowsAt(prev.nested[1].rows, RowsNotOf(prev, op.sel.i))

\* C5 (as claimed): for an entity of at least two positions and 0 < h < len,
\* concatenate([entity[0:h], entity[h:len]]) succeeds and returns an entity
\* with the field values, row order and len() of the original.
C5_SplitConcatRoundTrip ==
    (op.name = "split_concat" /\ Consistent(prev)
        /\ EntityLen(prev) >= 2 /\ op.h > 0 /\ op.h < EntityLen(prev)) =>
        /\ err = "none"
        /\ res # <<>>
        /\ res[1].rows = prev.rows
        /\ res[1].keys = prev.keys
        /\ prev.nested # <<>> =>
              /\ res[1].nested # <<>>
              /\ res[1].nested[1].rows = prev.nested[1].rows
        /\ res[1]._class_index.nd = 1
        /\ EntityLen(res[1]) = EntityLen(prev)

\* The values of the sort key `name` for the rows of e, as numbers.
SortColumn(e, name) ==
    IF name = "rows" THEN e.rows
    ELSE IF name = "keys" THEN [p \in 1..Len(e.keys) |-> KeyOrd(e.keys[p])]
    ELSE e.nested[1].rows

\* Row p of e comes strictly before row q in the composite order.
Precedes(e, by, ascending, p, q) ==
    \E j \in 1..Len(by) :
        /\ \A i \in 1..(j - 1) :
              SortColumn(e, by[i])[p] = SortColumn(e, by[i])[q]
        /\ IF ascending[j]
           THEN SortColumn(e, by[j])[p] < SortColumn(e, by[j])[q]
           ELSE SortColumn(e, by[j])[p] > SortColumn(e, by[j])[q]

\* The rows of r (array members and nested entity taken together) are the
\* rows of e, in the composite order, rows with equal keys in the order
\* they have in e.
SortedStably(e, r, by, ascending) ==
    LET n == Len(e.rows)
        src(j) == CHOOSE p \in 1..n : e.rows[p] = r.rows[j]
    IN  /\ Len(r.rows) = n
        /\ Len(r.keys) = n
        /\ Elems(r.rows) = Elems(e.rows)
        /\ \A j \in 1..n : r.keys[j] = e.keys[src(j)]
        /\ (e.nested = <<>>) = (r.nested = <<>>)
        /\ e.nested # <<>> =>
              /\ Len(r.nested[1].rows) = n
              /\ \A j \in 1..n :
                    r.nested[1].rows[j] = e.nested[1].rows[src(j)]
        /\ \A j \in 1..(n - 1) :
              \/ Precedes(e, by, ascending, src(j), src(j + 1))
              \/ /\ ~Precedes(e, by, ascending, src(j + 1), src(j))
                 /\ src(j) < src(j + 1)

\* C6 (as claimed): when sort_values returns, the rows of the result (the
\* entity itself when in place, the returned copy otherwise) are a
\* permutation of the original rows in the composite order of the keys,
\* each ascending or descending as requested, and rows with equal keys keep
\* their original relative order.
C6_StableSort ==
    (op.name = "sort" /\ err = "none") =>
        SortedStably(prev, IF op.inplace THEN ent ELSE res[1],
                     op.by, op.ascending)

\* The lengths of the array members and of the nested entity of e.
FieldLengths(e) ==
    {Len(e.rows), Len(e.keys)}
    \cup (IF e.nested = <<>> THEN {} ELSE {Len(e.nested[1].rows)})

\* C8 (as claimed): construction or set_index on an entity whose array
\* members and nested entity do not all have one length fails with
\* ValueError, also when only the nested entity's length differs.
C8_CardinalityError ==
    (op.name \in {"init", "set_index"} /\ Cardinality(FieldLengths(prev)) > 1)
        => err = "ValueError"

\* Invariant I1 for one entity.
I1(e) ==
    /\ Cardinality(FieldLengths(e)) = 1
    /\ FieldLengths(e) = {e._member_length}

\* C9 (as claimed): after any sequence of calls that returned without
\* error, the entity and every entity returned by a read, sort or
\* concatenate satisfy I1.
C9_InvariantI1 ==
    err = "none" =>
        /\ ent.built => I1(ent)
        /\ res # <<>> => I1(res[1])

\* The selection of the last call is an integer i >= len, or a range whose
\* start is >= len, for the length len of the entity before the call.
OutOfRangeCall ==
    /\ op.name \in {"read", "delete"}
    /\ \/ op.sel.kind = "int" /\ op.sel.i >= EntityLen(prev)
       \/ /\ op.sel.kind = "slice"
          /\ op.sel.start # <<>>
          /\ op.sel.start[1] >= EntityLen(prev)

\* C10: a read or delete with an integer i >= len(entity), or a range whose
\* start is >= len(entity), fails with IndexError and leaves every member
\* and the index of the entity unchanged; on an entity of length 0 every
\* integer selection fails so.
C10_OutOfRange ==
    /\ OutOfRangeCall => (err = "IndexError" /\ ent = prev /\ res = <<>>)
    /\ (op.name \in {"read", "delete"} /\ op.sel.kind = "int"
            /\ EntityLen(prev) = 0)
          => (err = "IndexError" /\ ent = prev /\ res = <<>>)

\* C10 witness: `del entity[2]` on a raw-form entity of 2 keys over 3 rows
\* has raised IndexError and changed nothing.
C10_Witness ==
    /\ op.name = "delete"
    /\ op.sel = IntSel(2)
    /\ prev.keys = <<"a", "b", "a">>
    /\ prev._class_index_attribute = "keys"
    /\ ~prev._class_index_to_members_is_slice
    /\ EntityLen(prev) = 2
    /\ err = "IndexError"
    /\ ent = prev
\* The array an entity is keyed by: the keys member when it is indexed on
\* "keys", one key per row (the row ids) under the default index.
KeyArray(e) == IF e._class_index_attribute = "keys" THEN e.keys ELSE e.rows

\* The class-index positions a selection names on an index of n positions.
SelectedPositions(sel, n) ==
    CASE sel.kind = "int" -> {sel.i}
      [] sel.kind = "slice" -> Elems(SlicePositions(sel, n))
      [] sel.kind = "arr" -> Elems(sel.a)
      [] OTHER -> {}

\* A supported selection that names at least one position, all within
\* 0..n-1.
InRangeSelection(sel, n) ==
    /\ sel.kind \in {"int", "slice", "arr"}
    /\ SelectedPositions(sel, n) # {}
    /\ SelectedPositions(sel, n) \subseteq 0..(n - 1)

\* The rows (from 0) of e whose key is at one of the positions of the set P
\* among the distinct keys in order of first occurrence.
RowsOfPositions(e, P) ==
    {p \in 0..(Len(e.rows) - 1) :
        \E j \in P : KeyArray(e)[p + 1] = DistinctKey(KeyArray(e), j)}

\* C11 (as claimed): for an entity with a default, slice-form or raw-form
\* index and every in-range integer, range (of any step) or list of
\* class-index positions, the query resolves to member-row positions, the
\* read succeeds, and the rows selected are exactly the rows whose key is
\* at one of the selected positions.
C11_QueryResolvesRows ==
    (op.name = "read" /\ Consistent(prev)
        /\ InRangeSelection(op.sel, EntityLen(prev))) =>
        LET q == _query_index(prev, op.sel)
            P == RowsOfPositions(prev,
                                 SelectedPositions(op.sel, EntityLen(prev)))
        IN  /\ q.err = "none"
            /\ err = "none"
            /\ res # <<>>
            /\ Len(res[1].rows) = Cardinality(P)
            /\ Elems(res[1].rows) = {prev.rows[p + 1] : p \in P}
MappingWithinRows(e) ==
    IF e._class_index_to_members_is_slice
    THEN \A j \in 1..Len(e._class_index_to_members) :
             /\ e._class_index_to_members[j][1] >= 0
             /\ e._class_index_to_members[j][2] <= Len(e.rows)
    ELSE Len(e._class_index_to_members) = Len(e.rows)

\* C13 (as claimed): the entity a read returns has its index rebuilt over
\* its own rows: member_length is the length of its members, the mapping
\* refers to positions of its own members; and for a default-index entity
\* and 0 <= a < b <= len, entity[a:b][j], 0 <= j < b-a, is exactly row a+j
\* of the entity.
C13_ReadResultReindexed ==
    /\ (op.name = "read" /\ err = "none" /\ Consistent(prev)) =>
          /\ res # <<>>
          /\ res[1]._member_length = Len(res[1].rows)
          /\ res[1]._member_index = Arange(Len(res[1].rows))
          /\ MappingWithinRows(res[1])
    /\ (op.name = "read_read" /\ DefaultIndexed(ent) /\ Consistent(ent)
            /\ op.sel.kind = "slice"
            /\ op.sel.start[1] < op.sel.stop[1]
            /\ op.sel.stop[1] <= EntityLen(ent)
            /\ op.h < op.sel.stop[1] - op.sel.start[1]) =>
          /\ err = "none"
          /\ res # <<>>
          /\ res[1].rows = <<ent.rows[op.sel.start[1] + op.h + 1]>>
          /\ res[1].keys = <<ent.keys[op.sel.start[1] + op.h + 1]>>
\* The inputs of the last concatenate call, in order.
ConcatInputs == <<prev>> \o op.others

\* The sum of the elements of a sequence of numbers.
RECURSIVE Sum(_)
Sum(ns) == IF ns = <<>> THEN 0 ELSE Head(ns) + Sum(Tail(ns))

\* The index a construction on the arrays of e with the index attribute of
\* `first` builds.
RebuiltIndex(e, first) ==
    Constructed(e.rows, e.keys, e.frame, AttributeSpec(first))

\* C14 (as claimed): for a non-empty list of separately constructed
\* entities with the same members, equal frame and the same index
\* attribute, whose row counts may differ, concatenate succeeds; the arrays
\* of the result are the inputs' rows joined in input order, member_length
\* is the sum of the inputs' member lengths, and the index is rebuilt: from
\* the joined values of the named index member if the first input has one,
\* else the default range index with len equal to the total row count.
C14_ConcatSeparate ==
    (op.name = "concat" /\ Consistent(prev)
        /\ \A j \in 1..Len(op.others) :
              /\ op.others[j].frame = prev.frame
              /\ op.others[j]._class_index_attribute
                    = prev._class_index_attribute) =>
        LET ins == ConcatInputs
            total == Sum([j \in 1..Len(ins) |-> Len(ins[j].rows)])
        IN  /\ err = "none"
            /\ res # <<>>
            /\ res[1].rows = Flatten([j \in 1..Len(ins) |-> ins[j].rows])
            /\ res[1].keys = Flatten([j \in 1..Len(ins) |-> ins[j].keys])
            /\ res[1].frame = prev.frame
            /\ res[1]._member_length
                  = Sum([j \in 1..Len(ins) |-> ins[j]._member_length])
            /\ res[1]._member_length = total
            /\ res[1] = RebuiltIndex(res[1], prev)
            /\ prev._class_index_attribute = "None" =>
                  /\ DefaultIndexed(res[1])
                  /\ EntityLen(res[1]) = total
\* Some further input of the last concatenate call differs from the first
\* input in the frame or in member_length.
OpaqueFieldDiffers ==
    \E j \in 1..Len(op.others) :
        \/ op.others[j].frame # prev.frame
        \/ op.others[j]._member_length # prev._member_length

\* C15: concatenate raises AssertionError whenever the frame (a string) or
\* member_length (a number) of some input differs from that of the first
\* input; nothing is returned, and the first input is left as it was.
C15_ConcatConsistencyError ==
    (op.name = "concat" /\ OpaqueFieldDiffers) =>
        /\ err = "AssertionError"
        /\ res = <<>>
        /\ ent = prev

\* C15 witness: three inputs of two rows each under the default index, the
\* third of another frame: AssertionError.
C15_Witness ==
    /\ op.name = "concat"
    /\ Len(op.others) = 2
    /\ Len(prev.rows) = 2
    /\ prev._class_index_attribute = "None"
    /\ \A j \in 1..2 :
          /\ Len(op.others[j].rows) = 2
          /\ op.others[j]._class_index_attribute = "None"
    /\ op.others[1].frame = prev.frame
    /\ op.others[2].frame # prev.frame
    /\ err = "AssertionError"
    /\ res = <<>>
\* C16 (as claimed): after sort_values with inplace=False has returned, the
\* entity is unmodified: its members and row order, its class index, its
\* len(), its mapping of class-index positions to rows and its index
\* attribute are as before the call, for an entity indexed by the default
\* range, by a member name or by an explicit key array.
C16_SortCopyLeavesSource ==
    (op.name = "sort" /\ ~op.inplace /\ err = "none") =>
        /\ ent.rows = prev.rows /\ ent.keys = prev.keys
        /\ ent.nested = prev.nested
        /\ ent._class_index = prev._class_index
        /\ EntityLen(ent) = EntityLen(prev)
        /\ ent._class_index_to_members = prev._class_index_to_members
        /\ ent._class_index_to_members_is_slice
              = prev._class_index_to_members_is_slice
        /\ ent._class_index_attribute = prev._class_index_attribute
\* The name is no attribute of e and no attribute of its nested entity.
Unresolved(e, name) ==
    /\ name \notin AttrNames
    /\ ~(name = NestedAttr /\ e.nested # <<>>)

\* C17: sort_values with a key that is an attribute neither of the entity
\* nor of a nested entity raises AttributeError before the index is reset:
\* the members and the index of the entity are unchanged and nothing is
\* returned.
C17_SortUnknownKey ==
    (op.name = "sort" /\ \E j \in 1..Len(op.by) : Unresolved(prev, op.by[j]))
        => (err = "AttributeError" /\ ent = prev /\ res = <<>>)

\* C17 witness: an entity indexed on "keys" [a,b] sorted by rows and then
\* by an unknown name: AttributeError, the index on "keys" still in place.
C17_Witness ==
    /\ op.name = "sort"
    /\ op.by = <<"rows", "missing">>
    /\ prev.keys = <<"a", "b">>
    /\ prev._class_index_attribute = "keys"
    /\ err = "AttributeError"
    /\ ent._class_index_attribute = "keys"
    /\ ent = prev
\* C18 (as claimed): a delete is all-or-nothing: if `del entity[selection]`
\* raises, no member and no part of the index of the entity has changed.
C18_DeleteAllOrNothing ==
    (op.name = "delete" /\ err # "none") => ent = prev
\* The calls of one for statement so far: iter() has set the cursor to 0;
\* the h-th next(), h <= len, has returned the read of class-index position
\* h - 1 and moved the cursor to h, changing nothing else; the call after
\* that, h = len + 1, has raised StopIteration and returned nothing.
IterationInOrder ==
    /\ op.name = "iter" => (err = "none" /\ ent.idx = <<0>>)
    /\ op.name = "next" =>
          /\ op.h <= EntityLen(prev) =>
                /\ err = "none"
                /\ res = <<__getitem__(prev, IntSel(op.h - 1)).e>>
                /\ __getitem__(prev, IntSel(op.h - 1)).err = "none"
                /\ res[1]._class_index.a = <<prev._class_index.a[op.h]>>
                /\ ent = [prev EXCEPT !.idx = <<op.h>>]
          /\ op.h > EntityLen(prev) =>
                /\ op.h = EntityLen(prev) + 1
                /\ err = "StopIteration"
                /\ res = <<>>

\* C19: for one iteration over an entity that is not otherwise touched,
\* iter() sets the cursor to 0, the successive next() calls return the
\* reads of class-index positions 0, 1, ..., len - 1 in that order, the
\* call after the last position raises StopIteration, and every iteration
\* that is started comes to that end: exactly len items, always finite.
C19_Iteration ==
    /\ []IterationInOrder
    /\ (op.name = "iter") ~> (err = "StopIteration")

\* C19 witness: on an entity of three positions the fourth next() has
\* raised StopIteration, after the third returned position 2.
C19_Witness ==
    /\ op.name = "next"
    /\ op.h = 4
    /\ EntityLen(prev) = 3
    /\ prev.idx = <<3>>
    /\ err = "StopIteration"
    /\ ent.idx = <<0>>
\* The class-index positions chunk j of size c covers on an index of n
\* positions.
ChunkPositions(j, c, n) == ((j - 1) * c)..(Min(j * c, n) - 1)

\* C20: for chunk_size >= 1, yield_chunks(chunk_size) yields exactly
\* ceil(len / chunk_size) sub-entities and then ends; chunk j is the read of
\* the class-index positions (j-1)*chunk_size up to j*chunk_size - 1, so
\* each chunk covers at most chunk_size positions, only the last may cover
\* fewer, and every position is covered by exactly one chunk, in order; an
\* entity of length 0 yields no chunk.
C20_YieldChunks ==
    (op.name = "chunks" /\ op.h >= 1) =>
        LET n == EntityLen(prev)
            c == op.h
            k == Len(res)
        IN  /\ err = "none"
            /\ ent = prev
            /\ k * c >= n
            /\ (k - 1) * c < n
            /\ n = 0 => res = <<>>
            /\ \A j \in 1..k :
                  /\ res[j]._class_index.nd = 1
                  /\ res[j]._class_index.a
                        = RowsAt(prev._class_index.a, ChunkPositions(j, c, n))
                  /\ EntityLen(res[j]) <= c
                  /\ EntityLen(res[j]) >= 1
                  /\ j < k => EntityLen(res[j]) = c
                  /\ res[j]
                        = __getitem__(prev,
                              SliceSel(<<(j - 1) * c>>, <<j * c>>, <<>>)).e
            /\ Flatten([j \in 1..k |-> res[j]._class_index.a])
                  = prev._class_index.a

\* C20 witness: an entity of three positions in chunks of two: a chunk of
\* positions 0 and 1, then a chunk of position 2.
C20_Witness ==
    /\ op.name = "chunks"
    /\ op.h = 2
    /\ EntityLen(prev) = 3
    /\ err = "none"
    /\ Len(res) = 2
    /\ res[1]._class_index.a = <<0, 1>>
    /\ res[2]._class_index.a = <<2>>
    /\ res[2].rows = <<3>>
\* C21 (as claimed): after set_index on a member name or an explicit key
\* array that groups several rows per key, set_index() with no argument
\* succeeds and restores the default range index: len(entity) is
\* member_length, one key per row.
C21_IndexClearedAgain ==
    (op.name = "set_index" /\ op.spec = NoneSpec /\ Consistent(prev)
        /\ EntityLen(prev) < Len(prev.rows)) =>
        /\ err = "none"
        /\ DefaultIndexed(ent)
        /\ ent._member_length = Len(ent.rows)
        /\ EntityLen(ent) = ent._member_length
        /\ ent.rows = prev.rows /\ ent.keys = prev.keys

C23_SliceFormIffContiguous ==
    (ent.built /\ ent._class_index_attribute = "keys"
        /\ Len(ent.keys) = Len(ent.rows)) =>
        (ent._class_index_to_members_is_slice <=> Contiguous(ent.keys))

\* The member rows (from 0) the mapping assigns to class-index position j.
MappedRows(e, j) ==
    IF e._class_index_to_members_is_slice
    THEN {p \in 0..(Len(e.rows) - 1) :
            /\ j < Len(e._class_index_to_members)
            /\ e._class_index_to_members[j + 1][1] <= p
            /\ p < e._class_index_to_members[j + 1][2]}
    ELSE {p \in 0..(Len(e.rows) - 1) :
            /\ p < Len(e._class_index_to_members)
            /\ e._class_index_to_members[p + 1] = <<e._class_index.a[j + 1]>>}

\* The index of e is the one its current members call for.
IndexConsistent(e) ==
    /\ e._class_index.nd = 1
    /\ e._member_length = Len(e.rows)
    /\ Len(e._class_index.a) = Cardinality(Elems(KeyArray(e)))
    /\ \A j \in 0..(Len(e._class_index.a) - 1) :
          MappedRows(e, j)
              = RowsWithKey(KeyArray(e), DistinctKey(KeyArray(e), j))

\* C24 (as claimed): after any sequence of set_index, delete and in-place
\* sort calls that all returned without error, the index is consistent
\* with the current members: the class index has one position per distinct
\* current key (the values of the named index member, or the row range
\* when no index attribute is set) in first-occurrence order, and the
\* mapping assigns every member row to exactly one position, that of its
\* key.
C24_IndexFollowsMembers ==
    (ent.built /\ err = "none" /\ Len(ent.keys) = Len(ent.rows)) =>
        IndexConsistent(ent)

\* C25 (as claimed): a sort key that is no attribute of the entity itself is
\* resolved on the first nested entity that has an attribute of that name;
\* when several nested entities carry it and several keys are given, each
\* key is still sorted by the values of its own first match (one value
\* array per key, aligned with the key names): the rows of the result are
\* in the composite order of these values.
C25_FirstMatchPerKey ==
    (op.name = "sort" /\ NestedAttr \in Elems(op.by) /\ Consistent(prev)) =>
        /\ err = "none"
        /\ SortedStably(prev, IF op.inplace THEN ent ELSE res[1],
                        op.by, op.ascending)

\* The one cursor of the entity serves both statements: iter() by either
\* statement leaves the entity itself with the cursor at 0, and next() by
\* either statement returns the read of the position the cursor is at and
\* moves the cursor on by one.
SharedCursor ==
    loops.program # "none" =>
        /\ op.name = "iter" =>
              (err = "none" /\ ent = [prev EXCEPT !.idx = <<0>>])
        /\ (op.name = "next" /\ err = "none") =>
              /\ res = <<__getitem__(prev, IntSel(prev.idx[1])).e>>
              /\ ent = [prev EXCEPT !.idx = <<prev.idx[1] + 1>>]
              /\ loops.got[op.h][Len(loops.got[op.h])] = prev.idx[1]

\* The nested program runs over an entity of at least one position.
NestedLoops ==
    /\ loops.program = "nested"
    /\ ent.built
    /\ EntityLen(ent) >= 1

\* C26: two iterations over one entity share the cursor stored on the
\* entity (iter() returns the entity itself with the cursor at 0, so
\* starting or advancing one iteration moves the other); interleaved, one
\* of them can skip or repeat positions (the witness); and an outer loop
\* whose body iterates the same entity (len >= 1) to its end receives
\* position 0 in every pass, again and again, and never ends.
C26_SharedCursor ==
    /\ []SharedCursor
    /\ [](NestedLoops =>
            /\ Looping
            /\ loops.state[1] # "done"
            /\ \A j \in 1..Len(loops.got[1]) : loops.got[1][j] = 0)
    /\ NestedLoops ~>
          (op.name = "next" /\ op.h = 1 /\ err = "none" /\ prev.idx = <<0>>)

\* C26 witness: over an entity of three positions statement 1 has received
\* positions 0, 0 and 2 (0 twice, 1 never) and statement 2 position 1.
C26_Witness ==
    /\ loops.program = "interleaved"
    /\ EntityLen(ent) = 3
    /\ loops.got[1] = <<0, 0, 2>>
    /\ loops.got[2] = <<1>>

\* C27: when next() raises StopIteration it resets the cursor to 0, so an
\* exhausted iterator is not exhausted for good: a further next() on the
\* same entity (of at least one position) without a new iter() returns the
\* read of position 0 again and the sequence restarts.
C27_RestartAfterStop ==
    /\ (op.name = "next" /\ err = "StopIteration") => ent.idx = <<0>>
    /\ (op.name = "next" /\ loops.after_stop /\ EntityLen(prev) >= 1) =>
          /\ prev.idx = <<0>>
          /\ err = "none"
          /\ res = <<__getitem__(prev, IntSel(0)).e>>
          /\ res[1].rows = RowsAt(prev.rows, MappedRows(prev, 0))
          /\ ent.idx = <<1>>

\* C27 witness: after a next() that raised StopIteration on an entity of
\* three positions, two further next() calls have returned positions 0
\* and 1.
C27_Witness ==
    /\ op.name = "next"
    /\ err = "none"
    /\ EntityLen(prev) = 3
    /\ \E i \in 1..2 :
          /\ loops.state[i] = "done"
          /\ loops.got[3 - i] = <<0, 1, 2, 0, 1>>
          /\ loops.state[3 - i] = "running"

\* The selection is an empty unit-step range inside an index of n
\* positions: [a:a] with 0 <= a < n, or [:0] for n >= 1.
EmptyRangeInside(sel, n) ==
    /\ sel.kind = "slice"
    /\ sel.step = <<>>
    /\ \/ sel.start # <<>> /\ sel.stop = sel.start
          /\ sel.start[1] >= 0 /\ sel.start[1] < n
       \/ sel.start = <<>> /\ sel.stop = <<0>> /\ n >= 1

\* C28 (as claimed): reading an empty range of class-index positions inside
\* the bounds on a slice-form entity returns an entity with zero rows and
\* len 0 and raises no error; deleting such a range removes nothing.
C28_EmptyRange ==
    (op.name \in {"read", "delete"} /\ Consistent(prev)
        /\ IndexConsistent(prev)
        /\ prev._class_index_to_members_is_slice
        /\ EmptyRangeInside(op.sel, EntityLen(prev))) =>
        /\ err = "none"
        /\ op.name = "read" =>
              /\ res # <<>>
              /\ res[1].rows = <<>>
              /\ res[1].keys = <<>>
              /\ EntityLen(res[1]) = 0
        /\ op.name = "delete" =>
              /\ ent.rows = prev.rows
              /\ ent.keys = prev.keys
              /\ EntityLen(ent) = EntityLen(prev)

\* C29 (as claimed): a negative integer selection counts from the end: for
\* 1 <= k <= len(entity), entity[-k] yields exactly the rows of class-index
\* position len(entity) - k, a result of length 1, and del entity[-k]
\* removes exactly those rows.
C29_NegativeInteger ==
    (op.name \in {"read", "delete"} /\ Consistent(prev)
        /\ IndexConsistent(prev)
        /\ op.sel.kind = "int"
        /\ op.sel.i < 0 /\ 0 - op.sel.i <= EntityLen(prev)) =>
        LET P == MappedRows(prev, EntityLen(prev) + op.sel.i)
            Q == (0..(Len(prev.rows) - 1)) \ P
        IN  /\ err = "none"
            /\ op.name = "read" =>
                  /\ res # <<>>
                  /\ res[1].rows = RowsAt(prev.rows, P)
                  /\ res[1].keys = RowsAt(prev.keys, P)
                  /\ Len(res[1]._class_index.a) = 1
            /\ op.name = "delete" =>
                  /\ ent.rows = RowsAt(prev.rows, Q)
                  /\ ent.keys = RowsAt(prev.keys, Q)

\* C30 (as claimed): set_index with an explicit key array accepts the array
\* only if it has one key per member row; a shorter or longer array is
\* rejected with an error and the previous index stays in place, so that
\* after every successful set_index every row in [0, member_length) is
\* covered by exactly one class-index position.
C30_ExplicitArrayLength ==
    (op.name \in {"init", "set_index"} /\ op.spec.kind = "array"
        /\ Cardinality(FieldLengths(prev)) = 1) =>
        /\ Len(op.spec.vals) # Len(prev.rows) =>
              /\ err # "none"
              /\ ent = prev
        /\ err = "none" =>
              \A p \in 0..(ent._member_length - 1) :
                  Cardinality({j \in 0..(EntityLen(ent) - 1) :
                                  p \in MappedRows(ent, j)}) = 1

====
